---- MODULE Spec2Model ----
(***************************************************************************)
(* Alert processing core of Tools/enhanced_alerting.py                     *)
(* (class EnhancedAlertingSystem): threshold evaluation, correlation,      *)
(* escalation, throttling and dispatch over the alert history.             *)
(*                                                                         *)
(* Time is counted in whole minutes.  A datetime is an integer number of   *)
(* minutes; the minute-of-hour of t is t % 60.  Optional dictionary keys   *)
(* are modelled by the value None (dict.get's default) or, for the         *)
(* timestamp of an alert, by a sequence of length 0 or 1.  Strings that    *)
(* the code builds by concatenation (titles, messages) are sequences of    *)
(* their pieces.                                                           *)
(***************************************************************************)
EXTENDS Integers, Sequences, FiniteSets, TLC

VARIABLES
    now,            \* datetime.now(), in minutes
    config,         \* self.config (the keys the core reads)
    alert_history,  \* self.alert_history
    pc,             \* position of the running command
    raw_alerts,     \* raw_alerts of the batch / the input of a call
    queue,          \* correlated alerts still to be processed by the batch loop
    last,           \* observation of the last call: its input, output and effects
    runs,           \* one summary per batch started
    snapshot        \* arguments of a check_custom_thresholds call

vars == <<now, config, alert_history, pc, raw_alerts, queue, last, runs, snapshot>>

None == "None"

Levels == {"LOW", "MEDIUM", "HIGH", "CRITICAL"}

\* level_priority.get(level, 0)
level_priority(level) ==
    CASE level = "LOW" -> 1
      [] level = "MEDIUM" -> 2
      [] level = "HIGH" -> 3
      [] level = "CRITICAL" -> 4
      [] OTHER -> 0

Max(S) == CHOOSE x \in S : \A y \in S : y <= x

\* [f(s[i]) kept when Test(s[i])]: a list comprehension with a filter
RECURSIVE SelectSeqBy(_, _)
SelectSeqBy(s, keep) ==
    IF s = <<>> THEN <<>>
    ELSE IF Head(s) \in keep THEN <<Head(s)>> \o SelectSeqBy(Tail(s), keep)
         ELSE SelectSeqBy(Tail(s), keep)

----------------------------------------------------------------------------
(* Configuration *)

DefaultConfig ==
    [ email_enabled |-> FALSE,
      slack_enabled |-> FALSE,
      alert_levels |-> [CRITICAL |-> {"email", "slack"}, HIGH |-> {"email", "slack"},
                        MEDIUM |-> {"slack"}, LOW |-> {"slack"}],
      max_alerts_per_hour |-> 10,
      cooldown_minutes |-> 5,
      frequency_escalation |->
          [enabled |-> TRUE,
           thresholds |-> (3 :> "HIGH") @@ (5 :> "CRITICAL"),
           time_window_minutes |-> 60],
      duration_escalation |->
          [enabled |-> TRUE,
           thresholds |-> (30 :> "HIGH") @@ (120 :> "CRITICAL")],
      persistent_escalation |->
          [enabled |-> TRUE,
           check_interval_minutes |-> 15,
           max_checks |-> 4,
           escalate_to |-> "CRITICAL"],
      force_channels |-> {},
      correlation_enabled |-> TRUE,
      time_window_minutes |-> 10,
      max_group_size |-> 5,
      custom_thresholds_enabled |-> TRUE,
      current_environment |-> "development" ]

----------------------------------------------------------------------------
(* Alerts and history records *)

NoGroup == [pattern |-> None, alert_count |-> 0, sources |-> {}, alerts |-> <<>>]

\* An alert dictionary as check_for_alerts and the callers of the class build it;
\* title and message are the pieces of their f-strings
Alert(level, title, message, source, timestamp) ==
    [ level |-> level, title |-> title, message |-> message,
      source |-> source, timestamp |-> timestamp,
      tool |-> None, metric |-> None, value |-> 0, threshold |-> 0,
      escalation_reason |-> <<>>, correlation_group |-> NoGroup ]

\* datetime.fromisoformat(alert.get("timestamp", datetime.now().isoformat()))
AlertTime(alert, t) == IF alert.timestamp = <<>> THEN t ELSE alert.timestamp[1]

\* A record of the history file that carries a source key
\* (load_alert_history returns the file's JSON as it is)
LoadedRecord(timestamp, level, title, source) ==
    [ timestamp |-> timestamp, level |-> level, title |-> title,
      source |-> source, channels |-> {}, success |-> FALSE,
      escalated |-> FALSE, escalation_reason |-> <<>> ]

----------------------------------------------------------------------------
(* Escalator: check_escalation_policies *)

\* h.get("title") == alert.get("title") and h.get("source") == alert.get("source")
Similar(h, alert) == h.title = alert.title /\ h.source = alert.source

\* similar_alerts / recent_similar: matching records newer than the cutoff
SimilarSince(history, alert, cutoff) ==
    SelectSeq(history, LAMBDA h : h.timestamp > cutoff /\ Similar(h, alert))

\* for h in reversed(self.alert_history): the first match, scanning from the end
FirstOccurrence(history, alert) ==
    LET idx == {i \in 1..Len(history) : Similar(history[i], alert)}
    IN  IF idx = {} THEN <<>> ELSE <<history[Max(idx)].timestamp>>

\* sorted(threshold_items, reverse=True), first item with value >= threshold:
\* the highest threshold that is met, as a sequence of length 0 or 1
HighestMet(thresholds, value) ==
    LET met == {k \in DOMAIN thresholds : value >= k}
    IN  IF met = {} THEN <<>> ELSE <<Max(met)>>

\* a variant that goes on to the lower thresholds when the highest one met
\* names the alert's current level
FrequencyPolicyTryLower(cfg, history, alert, t) ==
    LET fc == cfg.frequency_escalation
        n == Len(SimilarSince(history, alert, t - fc.time_window_minutes))
        met == {k \in DOMAIN fc.thresholds : n >= k /\ fc.thresholds[k] # alert.level}
    IN  IF fc.enabled /\ met # {}
        THEN [fires |-> TRUE, level |-> fc.thresholds[Max(met)],
              reason |-> <<"Frequency escalation", n, fc.time_window_minutes>>]
        ELSE [fires |-> FALSE, level |-> alert.level, reason |-> <<>>]

\* the frequency policy: <<escalate?, level, reason>>
FrequencyPolicy(cfg, history, alert, t) ==
    LET fc == cfg.frequency_escalation
        n == Len(SimilarSince(history, alert, t - fc.time_window_minutes))
        hit == HighestMet(fc.thresholds, n)
    IN  IF fc.enabled /\ hit # <<>> /\ alert.level # fc.thresholds[hit[1]]
        THEN [fires |-> TRUE, level |-> fc.thresholds[hit[1]],
              reason |-> <<"Frequency escalation", n, fc.time_window_minutes>>]
        ELSE [fires |-> FALSE, level |-> alert.level, reason |-> <<>>]

\* the duration policy
DurationPolicy(cfg, history, alert, t) ==
    LET dc == cfg.duration_escalation
        first_occurrence == FirstOccurrence(history, alert)
        duration_minutes == IF first_occurrence = <<>> THEN 0 ELSE t - first_occurrence[1]
        hit == IF first_occurrence = <<>> THEN <<>>
               ELSE HighestMet(dc.thresholds, duration_minutes)
    IN  IF dc.enabled /\ hit # <<>> /\ alert.level # dc.thresholds[hit[1]]
        THEN [fires |-> TRUE, level |-> dc.thresholds[hit[1]],
              reason |-> <<"Duration escalation", duration_minutes>>]
        ELSE [fires |-> FALSE, level |-> alert.level, reason |-> <<>>]

\* a variant that counts the matching records, not the distinct intervals
PersistentPolicyCountingRecords(cfg, history, alert, t) ==
    LET pcfg == cfg.persistent_escalation
        ci == pcfg.check_interval_minutes
        recent_similar == SimilarSince(history, alert, t - ci * pcfg.max_checks)
        k == Len(recent_similar)
    IN  IF pcfg.enabled /\ k >= pcfg.max_checks
        THEN [fires |-> TRUE, level |-> pcfg.escalate_to,
              reason |-> <<"Persistent escalation", k, ci>>]
        ELSE [fires |-> FALSE, level |-> alert.level, reason |-> <<>>]

\* the persistence policy
PersistentPolicy(cfg, history, alert, t) ==
    LET pcfg == cfg.persistent_escalation
        ci == pcfg.check_interval_minutes
        recent_similar == SimilarSince(history, alert, t - ci * pcfg.max_checks)
        intervals_with_alerts ==
            {(t - recent_similar[i].timestamp) \div ci : i \in 1..Len(recent_similar)}
        k == Cardinality(intervals_with_alerts)
    IN  IF pcfg.enabled /\ k >= pcfg.max_checks
        THEN [fires |-> TRUE, level |-> pcfg.escalate_to,
              reason |-> <<"Persistent escalation", k, ci>>]
        ELSE [fires |-> FALSE, level |-> alert.level, reason |-> <<>>]

\* a variant that writes the policy's name where the level goes
EscalatedToPolicyName(alert, p) ==
    [alert EXCEPT !.level = p.reason[1], !.escalation_reason = p.reason]

Escalated(alert, p) ==
    [alert EXCEPT !.level = p.level, !.escalation_reason = p.reason]

\* a variant in which the persistence policy rewrites the alert and reports False
CheckEscalationSilentPersistence(cfg, history, alert, t) ==
    LET f == FrequencyPolicy(cfg, history, alert, t)
        d == DurationPolicy(cfg, history, alert, t)
        p == PersistentPolicy(cfg, history, alert, t)
    IN  IF f.fires THEN [alert |-> Escalated(alert, f), result |-> TRUE]
        ELSE IF d.fires THEN [alert |-> Escalated(alert, d), result |-> TRUE]
        ELSE IF p.fires THEN [alert |-> Escalated(alert, p), result |-> FALSE]
        ELSE [alert |-> alert, result |-> FALSE]

\* a variant that tries the duration policy before the frequency policy
CheckEscalationDurationFirst(cfg, history, alert, t) ==
    LET f == FrequencyPolicy(cfg, history, alert, t)
        d == DurationPolicy(cfg, history, alert, t)
        p == PersistentPolicy(cfg, history, alert, t)
    IN  IF d.fires THEN [alert |-> Escalated(alert, d), result |-> TRUE]
        ELSE IF f.fires THEN [alert |-> Escalated(alert, f), result |-> TRUE]
        ELSE IF p.fires THEN [alert |-> Escalated(alert, p), result |-> TRUE]
        ELSE [alert |-> alert, result |-> FALSE]

\* check_escalation_policies(alert): the alert after the call and the value returned
check_escalation_policies(cfg, history, alert, t) ==
    LET f == FrequencyPolicy(cfg, history, alert, t)
        d == DurationPolicy(cfg, history, alert, t)
        p == PersistentPolicy(cfg, history, alert, t)
    IN  IF f.fires THEN [alert |-> Escalated(alert, f), result |-> TRUE]
        ELSE IF d.fires THEN [alert |-> Escalated(alert, d), result |-> TRUE]
        ELSE IF p.fires THEN [alert |-> Escalated(alert, p), result |-> TRUE]
        ELSE [alert |-> alert, result |-> FALSE]

----------------------------------------------------------------------------
(* Threshold Evaluator: check_custom_thresholds.  uptime_percent is counted  *)
(* in tenths of a percent and tool_health_score in tenths.                  *)

\* config["custom_thresholds"]["environments"]
environments ==
    [ development |-> [disk_usage_percent |-> 90, memory_usage_percent |-> 85,
                       cpu_usage_percent |-> 80, network_latency_ms |-> 500,
                       tool_health_score |-> 7],
      staging |-> [disk_usage_percent |-> 85, memory_usage_percent |-> 80,
                   cpu_usage_percent |-> 75, network_latency_ms |-> 300,
                   tool_health_score |-> 8],
      production |-> [disk_usage_percent |-> 80, memory_usage_percent |-> 75,
                      cpu_usage_percent |-> 70, network_latency_ms |-> 200,
                      tool_health_score |-> 9] ]

\* config["custom_thresholds"]["tools"]
tools ==
    [ default |-> [response_time_ms |-> 1000, error_rate_percent |-> 5,
                   uptime_percent |-> 995, memory_mb |-> 500, cpu_percent |-> 50],
      CodingReviewer |-> [response_time_ms |-> 2000, error_rate_percent |-> 2,
                          uptime_percent |-> 999, memory_mb |-> 1000, cpu_percent |-> 60],
      PlannerApp |-> [response_time_ms |-> 1500, error_rate_percent |-> 3,
                      uptime_percent |-> 997, memory_mb |-> 800, cpu_percent |-> 55],
      AvoidObstaclesGame |-> [response_time_ms |-> 100, error_rate_percent |-> 1,
                              uptime_percent |-> 998, memory_mb |-> 200, cpu_percent |-> 40] ]

\* get_environment_thresholds(environment)
get_environment_thresholds(cfg, environment) ==
    LET env == IF environment = None THEN cfg.current_environment ELSE environment
    IN  IF env \in DOMAIN environments THEN environments[env]
        ELSE environments["development"]

\* get_tool_thresholds(tool_name)
get_tool_thresholds(tool_name) ==
    IF tool_name \in DOMAIN tools THEN tools[tool_name] ELSE tools["default"]

\* a variant that reports a threshold alert under the source tool_monitor
ThresholdAlertFromToolMonitor(level, title, message, tool_name, metric, value, threshold) ==
    [ Alert(level, <<title, IF tool_name = None THEN "System" ELSE tool_name, ")">>,
            <<message>>, "tool_monitor", <<>>)
      EXCEPT !.tool = tool_name, !.metric = metric, !.value = value,
             !.threshold = threshold ]

\* one alert dictionary of check_custom_thresholds
ThresholdAlert(level, title, message, tool_name, metric, value, threshold) ==
    [ Alert(level, <<title, IF tool_name = None THEN "System" ELSE tool_name, ")">>,
            <<message>>, "custom_threshold_monitor", <<>>)
      EXCEPT !.tool = tool_name, !.metric = metric, !.value = value,
             !.threshold = threshold ]

\* an over-threshold check: alert when value >= threshold, CRITICAL from critical_at on
OverThreshold(metric_data, thresholds, metric, critical_at, title, message, tool_name) ==
    IF metric \in DOMAIN metric_data /\ metric \in DOMAIN thresholds
       /\ metric_data[metric] >= thresholds[metric]
    THEN <<ThresholdAlert(
             IF metric_data[metric] >= critical_at THEN "CRITICAL" ELSE "HIGH",
             title, message, tool_name, metric, metric_data[metric], thresholds[metric])>>
    ELSE <<>>

\* check_custom_thresholds(metric_data, tool_name, environment)
check_custom_thresholds(cfg, metric_data, tool_name, environment) ==
    LET env_thresholds == get_environment_thresholds(cfg, environment)
        tool_thresholds == IF tool_name # None THEN get_tool_thresholds(tool_name)
                           ELSE <<>>
        thresholds == tool_thresholds @@ env_thresholds
        th(m) == IF m \in DOMAIN thresholds THEN thresholds[m] ELSE 0
        tth(m) == IF m \in DOMAIN tool_thresholds THEN tool_thresholds[m] ELSE 0
    IN  IF ~cfg.custom_thresholds_enabled THEN <<>>
        ELSE
          OverThreshold(metric_data, thresholds, "disk_usage_percent",
                        th("disk_usage_percent") + 10,
                        "Disk Usage Alert (", "Disk usage is at ", tool_name)
          \o OverThreshold(metric_data, thresholds, "memory_usage_percent",
                        th("memory_usage_percent") + 10,
                        "Memory Usage Alert (", "Memory usage is at ", tool_name)
          \o OverThreshold(metric_data, thresholds, "cpu_usage_percent",
                        th("cpu_usage_percent") + 15,
                        "CPU Usage Alert (", "CPU usage is at ", tool_name)
          \o (IF tool_name = None THEN <<>>
              ELSE
                OverThreshold(metric_data, tool_thresholds, "response_time_ms",
                              tth("response_time_ms") * 2,
                              "Response Time Alert (", "Response time is ", tool_name)
                \o OverThreshold(metric_data, tool_thresholds, "error_rate_percent",
                              tth("error_rate_percent") * 2,
                              "Error Rate Alert (", "Error rate is ", tool_name)
                \o (IF "uptime_percent" \in DOMAIN metric_data
                       /\ "uptime_percent" \in DOMAIN tool_thresholds
                       /\ metric_data["uptime_percent"] < tool_thresholds["uptime_percent"]
                    THEN <<ThresholdAlert(
                             IF metric_data["uptime_percent"]
                                  < tool_thresholds["uptime_percent"] - 50
                             THEN "CRITICAL" ELSE "HIGH",
                             "Uptime Alert (", "Uptime is ", tool_name, "uptime_percent",
                             metric_data["uptime_percent"],
                             tool_thresholds["uptime_percent"])>>
                    ELSE <<>>))

----------------------------------------------------------------------------
(* check_for_alerts: the raw alerts of a dashboard data file and the latest  *)
(* prediction file                                                         *)

\* the alerts of one entry of dashboard["tools"]["details"]
ToolAlerts(cfg, tool_info) ==
    (IF tool_info.status # "healthy"
     THEN <<Alert("HIGH", <<"Tool ", tool_info.name, " Unhealthy">>,
                  <<"Tool ", tool_info.name, " is reporting unhealthy status">>,
                  "tool_monitor", <<>>)>>
     ELSE <<>>)
    \o (IF DOMAIN tool_info.metrics # {}
        THEN check_custom_thresholds(cfg, tool_info.metrics, tool_info.name, None)
        ELSE <<>>)

RECURSIVE AllToolAlerts(_, _)
AllToolAlerts(cfg, details) ==
    IF details = <<>> THEN <<>>
    ELSE ToolAlerts(cfg, Head(details)) \o AllToolAlerts(cfg, Tail(details))

\* check_for_alerts() raises: json.load fails on a malformed dashboard file and
\* only FileNotFoundError is caught; os.listdir(self.logs_dir) is outside any try
CheckForAlertsRaises(dashboard) ==
    dashboard.file = "malformed" \/ dashboard.logs_dir = "missing"

\* check_for_alerts(), for a dashboard file that is missing or holds well-formed
\* JSON and an existing logs directory
check_for_alerts(cfg, dashboard) ==
    (IF dashboard.file = "missing"
     THEN <<Alert("MEDIUM", <<"Dashboard Data Missing">>,
                  <<"Could not read dashboard data for monitoring">>,
                  "alert_system", <<>>)>>
     ELSE check_custom_thresholds(cfg, dashboard.system, None, None)
          \o AllToolAlerts(cfg, dashboard.tools))
    \o (IF dashboard.critical_risks > 0
        THEN <<Alert("CRITICAL", <<"Critical Tool Failure Risk">>,
                     <<" tools have critical failure risk">>,
                     "predictive_monitor", <<>>)>>
        ELSE <<>>)

----------------------------------------------------------------------------
(* Correlator: correlate_alerts *)

\* config["correlation"]["rules"]["correlation_patterns"], in declaration order
correlation_patterns ==
    << [name |-> "disk_issues",
        keywords |-> {"disk", "space", "storage", "filesystem"},
        sources |-> {"system_monitor", "tool_monitor"},
        group_title |-> "Storage System Issues", group_level |-> "HIGH"],
       [name |-> "memory_issues",
        keywords |-> {"memory", "ram", "swap", "out of memory"},
        sources |-> {"system_monitor", "tool_monitor"},
        group_title |-> "Memory Resource Issues", group_level |-> "HIGH"],
       [name |-> "network_issues",
        keywords |-> {"network", "connection", "timeout", "dns"},
        sources |-> {"system_monitor", "tool_monitor"},
        group_title |-> "Network Connectivity Issues", group_level |-> "MEDIUM"],
       [name |-> "tool_failures",
        keywords |-> {"unhealthy", "failed", "error", "crash"},
        sources |-> {"tool_monitor", "predictive_monitor"},
        group_title |-> "Tool Health Issues", group_level |-> "HIGH"] >>

\* the pattern keywords that occur in one piece of text, lower-cased, for the
\* string literals of the program and of Tools/test_correlation.py
Keywords(piece) ==
    CASE piece = "Disk Space Warning" -> {"disk", "space"}
      [] piece = "Disk usage is at 85%" -> {"disk"}
      [] piece = "Storage Full" -> {"storage"}
      [] piece = "Filesystem / is 95% full" -> {"filesystem"}
      [] piece = "Disk I/O High" -> {"disk"}
      [] piece = "Disk I/O utilization above 90%" -> {"disk"}
      [] piece = "Memory Usage High" -> {"memory"}
      [] piece = "System memory usage at 92%" -> {"memory"}
      [] piece = "Out of Memory" -> {"memory", "out of memory"}
      [] piece = "Process killed due to out of memory" -> {"memory", "out of memory"}
      [] piece = "Network Timeout" -> {"network", "timeout"}
      [] piece = "Connection timeout to external service" -> {"connection", "timeout"}
      [] piece = "DNS Lookup Failed" -> {"dns", "failed"}
      [] piece = "Network Storage Timeout" -> {"network", "storage", "timeout"}
      [] piece = " Unhealthy" -> {"unhealthy"}
      [] piece = " is reporting unhealthy status" -> {"unhealthy"}
      [] piece = "Disk Usage Alert (" -> {"disk"}
      [] piece = "Disk usage is at " -> {"disk"}
      [] piece = "Memory Usage Alert (" -> {"memory"}
      [] piece = "Memory usage is at " -> {"memory"}
      [] piece = "Error Rate Alert (" -> {"error"}
      [] piece = "Error rate is " -> {"error"}
      [] OTHER -> {}

\* f"{alert.get('title', '')} {alert.get('message', '')}".lower(), as the set of
\* pattern keywords that occur in it
alert_text(alert) ==
    UNION {Keywords(alert.title[i]) : i \in 1..Len(alert.title)}
    \cup UNION {Keywords(alert.message[i]) : i \in 1..Len(alert.message)}

\* a variant that tests the keywords only
MatchesPatternKeywordOnly(alert, pattern) ==
    \E keyword \in pattern.keywords : keyword \in alert_text(alert)

\* keyword_match and source_match
MatchesPattern(alert, pattern) ==
    /\ \E keyword \in pattern.keywords : keyword \in alert_text(alert)
    /\ alert.source \in pattern.sources

\* a variant that keeps the alert's own minute as the window key, not floored
WindowKeyUnfloored(alert, time_window, t) == AlertTime(alert, t)

\* the start of the alert's time window: the minute of the hour floored to a
\* multiple of time_window, the hour kept
WindowKey(alert, time_window, t) ==
    LET alert_time == AlertTime(alert, t)
        minutes == alert_time % 60
    IN  (alert_time - minutes) + (minutes \div time_window) * time_window

\* time_groups: the window keys in order of first appearance
RECURSIVE WindowKeys(_, _, _, _)
WindowKeys(alerts, time_window, t, seen) ==
    IF alerts = <<>> THEN <<>>
    ELSE LET k == WindowKey(Head(alerts), time_window, t)
         IN  IF k \in seen THEN WindowKeys(Tail(alerts), time_window, t, seen)
             ELSE <<k>> \o WindowKeys(Tail(alerts), time_window, t, seen \cup {k})

\* a variant in which an alert that matches a pattern alone leaves the pool
RECURSIVE ApplyPatternsDroppingSingle(_, _)
ApplyPatternsDroppingSingle(i, ungrouped_alerts) ==
    IF i > Len(correlation_patterns) \/ ungrouped_alerts = <<>>
    THEN [groups |-> <<>>, ungrouped |-> ungrouped_alerts]
    ELSE LET pattern == correlation_patterns[i]
             matching_alerts ==
                 SelectSeq(ungrouped_alerts, LAMBDA a : MatchesPattern(a, pattern))
             remaining_alerts ==
                 SelectSeq(ungrouped_alerts, LAMBDA a : ~MatchesPattern(a, pattern))
             rest == ApplyPatternsDroppingSingle(i + 1, remaining_alerts)
         IN  IF Len(matching_alerts) > 1
             THEN [groups |-> <<[pattern |-> pattern.name, alerts |-> matching_alerts,
                                 pattern_config |-> <<pattern>>]>> \o rest.groups,
                   ungrouped |-> rest.ungrouped]
             ELSE rest

\* a variant in which the alerts a pattern groups stay in the pool
RECURSIVE ApplyPatternsSharingMatched(_, _)
ApplyPatternsSharingMatched(i, ungrouped_alerts) ==
    IF i > Len(correlation_patterns) \/ ungrouped_alerts = <<>>
    THEN [groups |-> <<>>, ungrouped |-> ungrouped_alerts]
    ELSE LET pattern == correlation_patterns[i]
             matching_alerts ==
                 SelectSeq(ungrouped_alerts, LAMBDA a : MatchesPattern(a, pattern))
             rest == ApplyPatternsSharingMatched(i + 1, ungrouped_alerts)
         IN  IF Len(matching_alerts) > 1
             THEN [groups |-> <<[pattern |-> pattern.name, alerts |-> matching_alerts,
                                 pattern_config |-> <<pattern>>]>> \o rest.groups,
                   ungrouped |-> rest.ungrouped]
             ELSE rest

\* one pass of the pattern loop, from pattern number i on:
\* the correlation groups found and the alerts still ungrouped
RECURSIVE ApplyPatternsFrom(_, _)
ApplyPatternsFrom(i, ungrouped_alerts) ==
    IF i > Len(correlation_patterns) \/ ungrouped_alerts = <<>>
    THEN [groups |-> <<>>, ungrouped |-> ungrouped_alerts]
    ELSE LET pattern == correlation_patterns[i]
             matching_alerts ==
                 SelectSeq(ungrouped_alerts, LAMBDA a : MatchesPattern(a, pattern))
             remaining_alerts ==
                 SelectSeq(ungrouped_alerts, LAMBDA a : ~MatchesPattern(a, pattern))
         IN  IF Len(matching_alerts) > 1
             THEN LET rest == ApplyPatternsFrom(i + 1, remaining_alerts)
                  IN  [groups |-> <<[pattern |-> pattern.name, alerts |-> matching_alerts,
                                     pattern_config |-> <<pattern>>]>> \o rest.groups,
                       ungrouped |-> rest.ungrouped]
             ELSE ApplyPatternsFrom(i + 1, remaining_alerts \o matching_alerts)

\* a variant that leaves the grouped alerts in the pool
ApplyPatternsKeepingMatched(alerts) ==
    LET r == ApplyPatternsFrom(1, alerts)
    IN  r.groups \o [i \in 1..Len(alerts) |->
                        [pattern |-> "individual", alerts |-> <<alerts[i]>>,
                         pattern_config |-> <<>>]]

\* _apply_correlation_patterns(alerts, correlation_config)
apply_correlation_patterns(alerts) ==
    LET r == ApplyPatternsFrom(1, alerts)
    IN  r.groups \o [i \in 1..Len(r.ungrouped) |->
                        [pattern |-> "individual", alerts |-> <<r.ungrouped[i]>>,
                         pattern_config |-> <<>>]]

\* max_level: the highest level among the alerts, starting from "LOW"
RECURSIVE MaxLevel(_, _)
MaxLevel(alerts, max_level) ==
    IF alerts = <<>> THEN max_level
    ELSE MaxLevel(Tail(alerts),
                  IF level_priority(Head(alerts).level) > level_priority(max_level)
                  THEN Head(alerts).level ELSE max_level)

\* _create_correlated_alert(correlation_group, correlation_config); the counts in
\* the message are those of correlation_group
create_correlated_alert(group, t) ==
    LET alerts == group.alerts
        group_title == IF group.pattern_config # <<>>
                       THEN <<group.pattern_config[1].group_title>>
                       ELSE <<"Multiple ">> \o alerts[1].title
        group_level == IF group.pattern_config # <<>>
                       THEN group.pattern_config[1].group_level
                       ELSE alerts[1].level
        max_level == MaxLevel(alerts, "LOW")
        final_level ==
            IF group.pattern_config # <<>> /\ group.pattern_config[1].group_level = "HIGH"
            THEN group_level ELSE max_level
    IN  [ level |-> final_level, title |-> group_title,
          message |-> <<"Correlated related alerts">>,
          source |-> "alert_correlator", timestamp |-> <<t>>,
          escalation_reason |-> <<>>,
          correlation_group |->
              [ pattern |-> group.pattern, alert_count |-> Len(alerts),
                sources |-> {alerts[i].source : i \in 1..Len(alerts)},
                alerts |-> [i \in 1..Len(alerts) |->
                              [title |-> alerts[i].title, level |-> alerts[i].level,
                               source |-> alerts[i].source,
                               timestamp |-> alerts[i].timestamp]] ] ]

\* a variant that emits the composites of a time group only
CorrelateGroupCompositesOnly(group_alerts, t) ==
    IF Len(group_alerts) <= 1 THEN group_alerts
    ELSE LET correlation_groups ==
                 SelectSeq(apply_correlation_patterns(group_alerts),
                           LAMBDA g : Len(g.alerts) > 1)
         IN  [i \in 1..Len(correlation_groups) |->
                 create_correlated_alert(correlation_groups[i], t)]

\* the alerts one time group contributes to correlated_alerts
CorrelateGroup(group_alerts, t) ==
    IF Len(group_alerts) <= 1 THEN group_alerts
    ELSE LET correlation_groups == apply_correlation_patterns(group_alerts)
         IN  [i \in 1..Len(correlation_groups) |->
                 IF Len(correlation_groups[i].alerts) > 1
                 THEN create_correlated_alert(correlation_groups[i], t)
                 ELSE correlation_groups[i].alerts[1]]

RECURSIVE CorrelateWindows(_, _, _, _)
CorrelateWindows(keys, alerts, time_window, t) ==
    IF keys = <<>> THEN <<>>
    ELSE CorrelateGroup(
             SelectSeq(alerts, LAMBDA a : WindowKey(a, time_window, t) = Head(keys)), t)
         \o CorrelateWindows(Tail(keys), alerts, time_window, t)

\* correlate_alerts(alerts)
correlate_alerts(cfg, alerts, t) ==
    IF ~cfg.correlation_enabled THEN alerts
    ELSE CorrelateWindows(WindowKeys(alerts, cfg.time_window_minutes, t, {}),
                          alerts, cfg.time_window_minutes, t)

----------------------------------------------------------------------------
(* Throttle Gate and Dispatcher *)

\* the history kept by should_send_alert: records of the last 24 hours
PruneHistory(history, t) ==
    SelectSeq(history, LAMBDA h : h.timestamp > t - 24 * 60)

\* recent_alerts: the kept records less than 3600 seconds old
RecentAlerts(history, t) ==
    SelectSeq(PruneHistory(history, t), LAMBDA h : t - h.timestamp < 60)

\* a variant of the rate test that lets one more alert through
ShouldSendAlertOffByOne(cfg, history, t) ==
    LET recent_alerts == RecentAlerts(history, t)
        times == {recent_alerts[i].timestamp : i \in 1..Len(recent_alerts)}
    IN  IF Len(recent_alerts) > cfg.max_alerts_per_hour THEN FALSE
        ELSE IF times # {} /\ t - Max(times) < cfg.cooldown_minutes THEN FALSE
        ELSE TRUE

\* a variant that compares the elapsed seconds with cooldown_minutes, not
\* multiplied by 60: a cooldown of a few seconds
ShouldSendAlertCooldownInSeconds(cfg, history, t) ==
    LET recent_alerts == RecentAlerts(history, t)
        times == {recent_alerts[i].timestamp : i \in 1..Len(recent_alerts)}
    IN  IF Len(recent_alerts) >= cfg.max_alerts_per_hour THEN FALSE
        ELSE IF times # {} /\ (t - Max(times)) * 60 < cfg.cooldown_minutes THEN FALSE
        ELSE TRUE

\* a variant without the cooldown test
ShouldSendAlertNoCooldown(cfg, history, t) ==
    Len(RecentAlerts(history, t)) < cfg.max_alerts_per_hour

\* a variant whose cooldown ignores a record written at the same instant
ShouldSendAlertCooldownAfterNow(cfg, history, t) ==
    LET recent_alerts == RecentAlerts(history, t)
        times == {recent_alerts[i].timestamp : i \in 1..Len(recent_alerts)}
    IN  IF Len(recent_alerts) >= cfg.max_alerts_per_hour THEN FALSE
        ELSE IF times # {} /\ t - Max(times) > 0
                /\ t - Max(times) < cfg.cooldown_minutes THEN FALSE
        ELSE TRUE

\* should_send_alert(alert): the value returned
should_send_alert(cfg, history, t) ==
    LET recent_alerts == RecentAlerts(history, t)
        times == {recent_alerts[i].timestamp : i \in 1..Len(recent_alerts)}
    IN  IF Len(recent_alerts) >= cfg.max_alerts_per_hour THEN FALSE
        ELSE IF times # {} /\ t - Max(times) < cfg.cooldown_minutes THEN FALSE
        ELSE TRUE

\* the channels of `channels` that are enabled, i.e. whose transport is called
EnabledChannels(cfg, channels) ==
    {c \in channels : \/ c = "email" /\ cfg.email_enabled
                      \/ c = "slack" /\ cfg.slack_enabled}

\* a variant that records the alert only when a channel delivered it
SendAlertRecordOnSuccess(cfg, history, alert, t, delivered) ==
    LET kept == PruneHistory(history, t)
        channels == IF alert.level \in DOMAIN cfg.alert_levels
                    THEN cfg.alert_levels[alert.level] ELSE {}
        attempted == EnabledChannels(cfg, channels)
        success == attempted \cap delivered # {}
    IN  IF ~should_send_alert(cfg, history, t)
        THEN [history |-> kept, result |-> FALSE, attempted |-> {}]
        ELSE [history |-> IF success
                          THEN Append(kept,
                                 [ timestamp |-> t, level |-> alert.level,
                                   title |-> alert.title, source |-> None,
                                   channels |-> channels, success |-> success,
                                   escalated |-> FALSE, escalation_reason |-> <<>> ])
                          ELSE kept,
              result |-> success, attempted |-> attempted]

\* send_alert(alert), with `delivered` the channels whose transport succeeds:
\* the history after the call, the value returned and the channels called
send_alert(cfg, history, alert, t, delivered) ==
    LET kept == PruneHistory(history, t)
        channels == IF alert.level \in DOMAIN cfg.alert_levels
                    THEN cfg.alert_levels[alert.level] ELSE {}
        attempted == EnabledChannels(cfg, channels)
        success == attempted \cap delivered # {}
    IN  IF ~should_send_alert(cfg, history, t)
        THEN [history |-> kept, result |-> FALSE, attempted |-> {}]
        ELSE [history |-> Append(kept,
                  [ timestamp |-> t, level |-> alert.level, title |-> alert.title,
                    source |-> None, channels |-> channels, success |-> success,
                    escalated |-> FALSE, escalation_reason |-> <<>> ]),
              result |-> success, attempted |-> attempted]

\* send_alert_with_channels(alert, channels)
send_alert_with_channels(cfg, history, alert, channels, t, delivered) ==
    LET attempted == EnabledChannels(cfg, channels)
        success == attempted \cap delivered # {}
    IN  [history |-> Append(history,
              [ timestamp |-> t, level |-> alert.level, title |-> alert.title,
                source |-> None, channels |-> channels, success |-> success,
                escalated |-> TRUE, escalation_reason |-> alert.escalation_reason ]),
         result |-> success, attempted |-> attempted]

\* a variant that asks the Throttle Gate before it sends
SendEscalatedAlertThrottled(cfg, history, alert, t, delivered) ==
    LET rewritten ==
            [alert EXCEPT
                !.message = <<"ESCALATED ALERT", alert.escalation_reason>> \o alert.message,
                !.title = <<"ESCALATED: ">> \o alert.title]
        base_channels == IF alert.level \in DOMAIN cfg.alert_levels
                         THEN cfg.alert_levels[alert.level] ELSE {}
    IN  IF ~should_send_alert(cfg, history, t)
        THEN [history |-> PruneHistory(history, t), result |-> FALSE, attempted |-> {}]
        ELSE send_alert_with_channels(cfg, PruneHistory(history, t), rewritten,
                                      base_channels \cup cfg.force_channels, t, delivered)

\* send_escalated_alert(alert): the message and the title are rewritten, the
\* channels are those of the escalated level plus force_channels
send_escalated_alert(cfg, history, alert, t, delivered) ==
    LET rewritten ==
            [alert EXCEPT
                !.message = <<"ESCALATED ALERT", alert.escalation_reason>> \o alert.message,
                !.title = <<"ESCALATED: ">> \o alert.title]
        base_channels == IF alert.level \in DOMAIN cfg.alert_levels
                         THEN cfg.alert_levels[alert.level] ELSE {}
    IN  send_alert_with_channels(cfg, history, rewritten,
                                 base_channels \cup cfg.force_channels, t, delivered)

----------------------------------------------------------------------------
(* The Escalator on its own: check_escalation_policies applied to an alert  *)
(* under a history file and an escalation configuration.                   *)

NoAlert == Alert(None, <<>>, <<>>, None, <<>>)

\* no check_custom_thresholds call of its own: metric_data = {}, no tool, no environment
NoSnapshot == [metric_data |-> <<>>, tool_name |-> None, environment |-> None]

\* the observation of a call: the alert before and after, the value returned,
\* the channels whose transport was called and those whose transport succeeds,
\* whether a record was appended, and the history and the time at the call
NoCall ==
    [ op |-> None, before |-> NoAlert, after |-> NoAlert, result |-> FALSE,
      attempted |-> {}, delivered |-> {}, recorded |-> FALSE,
      history_before |-> <<>>, time |-> 0 ]

\* ages, in minutes, of the records a history may hold
EscAges == <<125, 46, 40, 31, 16, 2>>

MaxEscRecords == 5

\* escalation settings a configuration file may merge over the defaults
EscConfigs ==
    { DefaultConfig,
      [DefaultConfig EXCEPT !.frequency_escalation.enabled = FALSE],
      [DefaultConfig EXCEPT !.frequency_escalation.enabled = FALSE,
                            !.duration_escalation.enabled = FALSE] }

EscTitle == <<"Tool ", "PlannerApp", " Unhealthy">>

EscSource == "tool_monitor"

\* the histories: at each age no record, a record of the alert's (title, source),
\* or a record this program wrote for it (no source key), oldest first
EscHistories ==
    LET kinds == [1..Len(EscAges) -> {"absent", "similar", "written"}]
        rec(i, k) == LoadedRecord(0 - EscAges[i], "MEDIUM", EscTitle,
                                  IF k = "similar" THEN EscSource ELSE None)
        all(f) == [i \in 1..Len(EscAges) |-> rec(i, f[i])]
        keep(f) == {rec(i, f[i]) : i \in {j \in 1..Len(EscAges) : f[j] # "absent"}}
    IN  {SelectSeqBy(all(f), keep(f)) :
            f \in {g \in kinds :
                      Cardinality({j \in 1..Len(EscAges) : g[j] # "absent"})
                          <= MaxEscRecords}}

InitEscalation ==
    /\ now = 0
    /\ config \in EscConfigs
    /\ alert_history \in EscHistories
    /\ pc = "call"
    /\ \E level \in Levels :
          raw_alerts = <<Alert(level, EscTitle, <<"Tool ", "PlannerApp", " is reporting unhealthy status">>,
                            EscSource, <<>>)>>
    /\ queue = <<>>
    /\ last = NoCall
    /\ runs = <<>>
    /\ snapshot = NoSnapshot

\* alert = raw_alerts[1]; result = self.check_escalation_policies(alert)
EscalationCall ==
    /\ pc = "call"
    /\ LET r == check_escalation_policies(config, alert_history, raw_alerts[1], now)
       IN  last' = [ op |-> "check_escalation_policies", before |-> raw_alerts[1],
                     after |-> r.alert, result |-> r.result, attempted |-> {},
                     delivered |-> {}, recorded |-> FALSE,
                     history_before |-> alert_history,
                     time |-> now ]
    /\ pc' = "done"
    /\ UNCHANGED <<now, config, alert_history, raw_alerts, queue, runs, snapshot>>

NextEscalation == EscalationCall

SpecEscalation == InitEscalation /\ [][NextEscalation]_vars

----------------------------------------------------------------------------
(* The Correlator on its own: correlate_alerts applied to a list of alerts. *)

MaxAlerts == 3

\* alerts as Tools/test_correlation.py and check_for_alerts build them, with
\* timestamps in two adjacent 10-minute windows; the last one carries no timestamp
CorrPool ==
    { Alert("HIGH", <<"Disk Space Warning">>, <<"Disk usage is at 85%">>,
            "system_monitor", <<3>>),
      Alert("CRITICAL", <<"Storage Full">>, <<"Filesystem / is 95% full">>,
            "system_monitor", <<4>>),
      Alert("MEDIUM", <<"Disk I/O High">>, <<"Disk I/O utilization above 90%">>,
            "system_monitor", <<7>>),
      Alert("HIGH", <<"Disk Space Warning">>, <<"Disk usage is at 85%">>,
            "system_monitor", <<11>>),
      Alert("CRITICAL", <<"Storage Full">>, <<"Filesystem / is 95% full">>,
            "system_monitor", <<10>>),
      Alert("HIGH", <<"Out of Memory">>, <<"Process killed due to out of memory">>,
            "tool_monitor", <<5>>),
      Alert("CRITICAL", <<"DNS Lookup Failed">>, <<"DNS Lookup Failed">>,
            "tool_monitor", <<8>>),
      Alert("CRITICAL", <<"Disk Usage Alert (", "System", ")">>, <<"Disk usage is at ">>,
            "custom_threshold_monitor", <<3>>),
      Alert("HIGH", <<"Tool ", "PlannerApp", " Unhealthy">>,
            <<"Tool ", "PlannerApp", " is reporting unhealthy status">>, "tool_monitor", <<>>) }

\* correlation settings a configuration file may merge over the defaults
CorrConfigs ==
    { DefaultConfig,
      [DefaultConfig EXCEPT !.correlation_enabled = FALSE],
      [DefaultConfig EXCEPT !.time_window_minutes = 5] }

SeqsUpTo(S, n) == UNION {[1..k -> S] : k \in 0..n}

InitCorrelation ==
    /\ now = 5
    /\ config \in CorrConfigs
    /\ alert_history = <<>>
    /\ pc = "call"
    /\ raw_alerts \in SeqsUpTo(CorrPool, MaxAlerts)
    /\ queue = <<>>
    /\ last = NoCall
    /\ runs = <<>>
    /\ snapshot = NoSnapshot

\* correlated_alerts = self.correlate_alerts(raw_alerts)
CorrelationCall ==
    /\ pc = "call"
    /\ queue' = correlate_alerts(config, raw_alerts, now)
    /\ last' = [NoCall EXCEPT !.op = "correlate_alerts"]
    /\ pc' = "done"
    /\ UNCHANGED <<now, config, alert_history, raw_alerts, runs, snapshot>>

NextCorrelation == CorrelationCall

SpecCorrelation == InitCorrelation /\ [][NextCorrelation]_vars

----------------------------------------------------------------------------
(* The Correlator on longer lists of alerts that share one time window. *)

MaxGroupAlerts == 6

\* three alerts of one 10-minute window: one matching network_issues and
\* tool_failures, one matching disk_issues and network_issues, one matching
\* disk_issues only
GroupPool ==
    { Alert("CRITICAL", <<"DNS Lookup Failed">>, <<"DNS Lookup Failed">>,
            "tool_monitor", <<8>>),
      Alert("HIGH", <<"Network Storage Timeout">>,
            <<"Connection timeout to external service">>, "system_monitor", <<6>>),
      Alert("HIGH", <<"Disk Space Warning">>, <<"Disk usage is at 85%">>,
            "system_monitor", <<3>>) }

InitGroups ==
    /\ now = 5
    /\ config = DefaultConfig
    /\ alert_history = <<>>
    /\ pc = "call"
    /\ raw_alerts \in SeqsUpTo(GroupPool, MaxGroupAlerts)
    /\ queue = <<>>
    /\ last = NoCall
    /\ runs = <<>>
    /\ snapshot = NoSnapshot

SpecGroups == InitGroups /\ [][NextCorrelation]_vars

----------------------------------------------------------------------------
(* The Correlator on the alerts check_for_alerts evaluates from a dashboard. *)

\* dashboard files with system disk and memory readings and two tools, each
\* healthy or not and with an error rate below or above its threshold
EvaluatedDashboards ==
    { [file |-> "ok", logs_dir |-> "ok",
       system |-> ("disk_usage_percent" :> d) @@ ("memory_usage_percent" :> m),
       tools |-> <<[name |-> "PlannerApp", status |-> s1,
                    metrics |-> ("error_rate_percent" :> e1)],
                   [name |-> "CodingReviewer", status |-> s2,
                    metrics |-> ("error_rate_percent" :> e2)]>>,
       critical_risks |-> 0]
        : d \in {50, 95}, m \in {50, 95},
          s1 \in {"healthy", "degraded"}, s2 \in {"healthy", "degraded"},
          e1 \in {1, 6}, e2 \in {1, 6} }

InitEvaluated ==
    /\ now = 0
    /\ config = DefaultConfig
    /\ alert_history = <<>>
    /\ pc = "read"
    /\ raw_alerts = <<>>
    /\ queue = <<>>
    /\ last = NoCall
    /\ runs = <<>>
    /\ snapshot \in EvaluatedDashboards

\* raw_alerts = self.check_for_alerts()
EvaluateCall ==
    /\ pc = "read"
    /\ raw_alerts' = check_for_alerts(config, snapshot)
    /\ pc' = "call"
    /\ UNCHANGED <<now, config, alert_history, queue, last, runs, snapshot>>

NextEvaluated ==
    \/ EvaluateCall
    \/ CorrelationCall

SpecEvaluated == InitEvaluated /\ [][NextEvaluated]_vars

----------------------------------------------------------------------------
(* Properties of the Correlator (checked under SpecCorrelation) *)

CorrelationDone == last.op = "correlate_alerts"

IsComposite(alert) == alert.correlation_group # NoGroup

\* C5: correlate_alerts returns a list no longer than its input.
C5_NeverMoreAlerts ==
    CorrelationDone => Len(queue) <= Len(raw_alerts)

\* a call that merged alerts: the output is strictly shorter than the input
C5_Witness ==
    /\ CorrelationDone
    /\ Len(queue) < Len(raw_alerts)
    /\ \E i \in 1..Len(queue) : IsComposite(queue[i])

\* C6: the level of a composite alert is never lower than the highest level
\* among its members (a fixed group_level never downgrades severity).
C6_CompositeNotBelowMembers ==
    CorrelationDone =>
        \A i \in 1..Len(queue) :
            IsComposite(queue[i]) =>
                \A j \in 1..Len(queue[i].correlation_group.alerts) :
                    level_priority(queue[i].level) >=
                        level_priority(queue[i].correlation_group.alerts[j].level)

\* the three alerts of Tools/test_correlation.py's disk group, in any order and
\* with any timestamps at most 4 minutes apart
DiskScenario ==
    /\ Len(raw_alerts) = 3
    /\ {raw_alerts[i].title : i \in 1..3}
          = {<<"Disk Space Warning">>, <<"Storage Full">>, <<"Disk I/O High">>}
    /\ \A i \in 1..3 : /\ raw_alerts[i].source = "system_monitor"
                       /\ raw_alerts[i].timestamp # <<>>
    /\ \A i, j \in 1..3 : raw_alerts[i].timestamp[1] - raw_alerts[j].timestamp[1] <= 4

PatternOf(alert) ==
    CHOOSE i \in 1..Len(correlation_patterns) :
        correlation_patterns[i].name = alert.correlation_group.pattern

\* C14: every member of a composite alert matches the composite's pattern by
\* keyword and by source, and all members of a composite lie in one time
\* bucket, less than time_window_minutes apart.
C14_CompositeMembersMatchAndShareBucket ==
    CorrelationDone =>
        \A i \in 1..Len(queue) :
            IsComposite(queue[i]) =>
                LET members == queue[i].correlation_group.alerts
                    pattern == correlation_patterns[PatternOf(queue[i])]
                    w == config.time_window_minutes
                IN  /\ \E k \in 1..Len(correlation_patterns) :
                          correlation_patterns[k].name = queue[i].correlation_group.pattern
                    /\ \A j \in 1..Len(members) :
                          /\ members[j].source \in pattern.sources
                          /\ \E n \in 1..Len(raw_alerts) :
                                /\ raw_alerts[n].title = members[j].title
                                /\ raw_alerts[n].level = members[j].level
                                /\ raw_alerts[n].source = members[j].source
                                /\ raw_alerts[n].timestamp = members[j].timestamp
                                /\ pattern.keywords \cap alert_text(raw_alerts[n]) # {}
                    /\ \A j, k \in 1..Len(members) :
                          /\ WindowKey(members[j], w, now) = WindowKey(members[k], w, now)
                          /\ AlertTime(members[j], now) - AlertTime(members[k], now) < w

\* a composite was formed while an alert with one of its pattern's keywords was
\* left out: its source is in no pattern's sources, or it lies in another bucket
C14_Witness ==
    /\ CorrelationDone
    /\ \E i, n \in 1..Len(queue) :
          /\ IsComposite(queue[i])
          /\ ~IsComposite(queue[n])
          /\ LET pattern == correlation_patterns[PatternOf(queue[i])]
                 w == config.time_window_minutes
                 member == queue[i].correlation_group.alerts[1]
             IN  /\ pattern.keywords \cap alert_text(queue[n]) # {}
                 /\ \/ /\ \A k \in 1..Len(correlation_patterns) :
                             queue[n].source \notin correlation_patterns[k].sources
                       /\ WindowKey(queue[n], w, now) = WindowKey(member, w, now)
                    \/ /\ queue[n].source \in pattern.sources
                       /\ WindowKey(queue[n], w, now) # WindowKey(member, w, now)

----------------------------------------------------------------------------
(* The Threshold Evaluator on its own: check_custom_thresholds applied to a  *)
(* metric snapshot, after any number of set_environment commands.          *)

\* a metric the snapshot does not hold
Absent == 0 - 1

\* the values a snapshot may hold for each metric: below the thresholds, on a
\* threshold, and on either side of the CRITICAL limits
MetricChoices ==
    [ disk_usage_percent : {Absent, 90, 95, 100},
      memory_usage_percent : {Absent, 70, 95},
      cpu_usage_percent : {Absent, 85, 92},
      network_latency_ms : {Absent, 600},
      response_time_ms : {Absent, 1600, 3000},
      error_rate_percent : {Absent, 6},
      uptime_percent : {Absent, 990, 940},
      memory_mb : {Absent, 900} ]

\* metric_data: the dictionary that holds the metrics present
MetricData(choice) ==
    [m \in {x \in DOMAIN choice : choice[x] # Absent} |-> choice[m]]

ToolNames == {None, "PlannerApp", "UnknownTool"}

EnvironmentArgs == {None, "production"}

\* custom_thresholds settings a configuration file may merge over the defaults
ThresholdConfigs ==
    { DefaultConfig, [DefaultConfig EXCEPT !.custom_thresholds_enabled = FALSE] }

\* the names set-env is given: a configured environment or any other string
EnvironmentNames == {"staging", "production", "qa"}

InitThresholds ==
    /\ now = 0
    /\ config \in ThresholdConfigs
    /\ alert_history = <<>>
    /\ pc = "call"
    /\ raw_alerts = <<>>
    /\ queue = <<>>
    /\ last = NoCall
    /\ runs = <<>>
    /\ \E choice \in MetricChoices, tool_name \in ToolNames, environment \in EnvironmentArgs :
          snapshot = [metric_data |-> MetricData(choice), tool_name |-> tool_name,
                      environment |-> environment]

\* set_environment(environment)
set_environment(environment) ==
    /\ pc = "call"
    /\ config.current_environment = "development"
    /\ config' = [config EXCEPT !.current_environment = environment]
    /\ UNCHANGED <<now, alert_history, pc, raw_alerts, queue, last, runs, snapshot>>

\* alerts = self.check_custom_thresholds(metric_data, tool_name, environment)
ThresholdCall ==
    /\ pc = "call"
    /\ raw_alerts' = check_custom_thresholds(config, snapshot.metric_data,
                                             snapshot.tool_name, snapshot.environment)
    /\ last' = [NoCall EXCEPT !.op = "check_custom_thresholds"]
    /\ pc' = "done"
    /\ UNCHANGED <<now, config, alert_history, queue, runs, snapshot>>

NextThresholds ==
    \/ \E environment \in EnvironmentNames : set_environment(environment)
    \/ ThresholdCall

SpecThresholds == InitThresholds /\ [][NextThresholds]_vars

----------------------------------------------------------------------------
(* The Correlator, the Escalator and the Throttle on inputs at the edge of
   their domains: configured values of 0, history records lacking a key. *)

\* a history record without the key "timestamp"
WithoutTimestamp(h) == [k \in DOMAIN h \ {"timestamp"} |-> h[k]]

\* h["timestamp"] is defined
HasTimestamp(h) == "timestamp" \in DOMAIN h

\* correlate_alerts raises: minutes // time_window divides by zero for the first
\* alert of the list
CorrelateAlertsRaises(cfg, alerts) ==
    cfg.correlation_enabled /\ alerts # <<>> /\ cfg.time_window_minutes = 0

\* should_send_alert raises: the pruning comprehension reads h["timestamp"] of
\* every record
ShouldSendAlertRaises(history) ==
    \E i \in 1..Len(history) : ~HasTimestamp(history[i])

\* check_escalation_policies raises: the frequency and persistence
\* comprehensions read h["timestamp"] of every record, the duration scan that of
\* the latest similar record, and the interval count divides by
\* check_interval_minutes; a policy is reached only if no earlier one returned
CheckEscalationRaises(cfg, history, alert, t) ==
    LET missing == \E i \in 1..Len(history) : ~HasTimestamp(history[i])
        idx == {i \in 1..Len(history) : Similar(history[i], alert)}
        pcfg == cfg.persistent_escalation
        frequency_raises == cfg.frequency_escalation.enabled /\ missing
        duration_raises ==
            /\ cfg.duration_escalation.enabled
            /\ idx # {}
            /\ ~HasTimestamp(history[Max(idx)])
        persistent_raises ==
            /\ pcfg.enabled
            /\ \/ missing
               \/ /\ pcfg.check_interval_minutes = 0
                  /\ SimilarSince(history, alert, t) # <<>>
    IN  \/ frequency_raises
        \/ /\ ~FrequencyPolicy(cfg, history, alert, t).fires
           /\ \/ duration_raises
              \/ /\ ~DurationPolicy(cfg, history, alert, t).fires
                 /\ persistent_raises

\* values a configuration file may set for the two window lengths
TotalityConfigs ==
    { [DefaultConfig EXCEPT !.time_window_minutes = w,
                            !.persistent_escalation.check_interval_minutes = ci,
                            !.frequency_escalation.enabled = f]
        : w \in {0, 10, 75}, ci \in {0, 15}, f \in BOOLEAN }

\* histories whose records may lack a timestamp or a title (an empty title
\* stands for h.get("title") being None)
TotalityHistories ==
    LET similar == LoadedRecord(0 - 20, "MEDIUM", EscTitle, EscSource)
        other == LoadedRecord(0 - 20, "MEDIUM", <<>>, EscSource)
    IN  { <<>>, <<similar>>, <<other>>, <<WithoutTimestamp(similar)>>,
          <<WithoutTimestamp(other), similar>> }

TotalityAlerts ==
    { Alert("MEDIUM", EscTitle, <<"Tool health issue detected">>, EscSource, <<>>),
      Alert("HIGH", <<"Disk Space Warning">>, <<"Disk usage is at 85%">>,
            "system_monitor", <<3>>) }

MaxTotalityAlerts == 2

InitTotality ==
    /\ now = 0
    /\ config \in TotalityConfigs
    /\ alert_history \in TotalityHistories
    /\ pc = "call"
    /\ raw_alerts \in SeqsUpTo(TotalityAlerts, MaxTotalityAlerts)
    /\ queue = <<>>
    /\ last = NoCall
    /\ runs = <<>>
    /\ snapshot = NoSnapshot

\* self.correlate_alerts(raw_alerts)
CorrelateAlertsCall ==
    /\ pc = "call"
    /\ LET raised == CorrelateAlertsRaises(config, raw_alerts)
       IN  /\ queue' = IF raised THEN <<>>
                       ELSE correlate_alerts(config, raw_alerts, now)
           /\ last' = [op |-> "correlate_alerts", raised |-> raised, result |-> FALSE]
    /\ pc' = "done"
    /\ UNCHANGED <<now, config, alert_history, raw_alerts, runs, snapshot>>

\* self.check_escalation_policies(raw_alerts[0])
CheckEscalationCall ==
    /\ pc = "call"
    /\ raw_alerts # <<>>
    /\ LET raised == CheckEscalationRaises(config, alert_history, raw_alerts[1], now)
       IN  last' = [op |-> "check_escalation_policies", raised |-> raised,
                    result |-> IF raised THEN FALSE
                               ELSE check_escalation_policies(
                                        config, alert_history, raw_alerts[1], now).result]
    /\ pc' = "done"
    /\ UNCHANGED <<now, config, alert_history, raw_alerts, queue, runs, snapshot>>

\* self.should_send_alert(raw_alerts[0]), which also prunes the history
ShouldSendAlertCall ==
    /\ pc = "call"
    /\ raw_alerts # <<>>
    /\ LET raised == ShouldSendAlertRaises(alert_history)
       IN  /\ alert_history' = IF raised THEN alert_history
                               ELSE PruneHistory(alert_history, now)
           /\ last' = [op |-> "should_send_alert", raised |-> raised,
                       result |-> IF raised THEN FALSE
                                  ELSE should_send_alert(config, alert_history, now)]
    /\ pc' = "done"
    /\ UNCHANGED <<now, config, raw_alerts, queue, runs, snapshot>>

NextTotality ==
    \/ CorrelateAlertsCall
    \/ CheckEscalationCall
    \/ ShouldSendAlertCall

SpecTotality == InitTotality /\ [][NextTotality]_vars

----------------------------------------------------------------------------
(* Properties of the Threshold Evaluator (checked under SpecThresholds) *)

ThresholdsDone == last.op = "check_custom_thresholds"

\* the resolved threshold map of the call: the environment's thresholds
\* overridden by the tool's
ResolvedThresholds ==
    (IF snapshot.tool_name # None THEN get_tool_thresholds(snapshot.tool_name) ELSE <<>>)
    @@ get_environment_thresholds(config, snapshot.environment)

\* the metric is present, has a resolved threshold and meets it
\* (uptime_percent: falls below it)
MeetsThreshold(metric) ==
    /\ metric \in DOMAIN snapshot.metric_data
    /\ metric \in DOMAIN ResolvedThresholds
    /\ IF metric = "uptime_percent"
       THEN snapshot.metric_data[metric] < ResolvedThresholds[metric]
       ELSE snapshot.metric_data[metric] >= ResolvedThresholds[metric]

\* C11: check_custom_thresholds emits exactly one alert for every metric that
\* is present, has a resolved threshold and meets it, and no alert for any
\* other metric, for every metric name of the resolved map.
C11_OneAlertPerMetricOverThreshold ==
    (ThresholdsDone /\ config.custom_thresholds_enabled) =>
        \A metric \in DOMAIN snapshot.metric_data \cup DOMAIN ResolvedThresholds :
            Cardinality({i \in 1..Len(raw_alerts) : raw_alerts[i].metric = metric})
                = IF MeetsThreshold(metric) THEN 1 ELSE 0

PercentageMetrics == {"disk_usage_percent", "memory_usage_percent", "cpu_usage_percent"}

RateMetrics == {"response_time_ms", "error_rate_percent"}

\* the snapshot of Tools/test_thresholds.py: disk 95, memory 70, cpu 85
ScenarioA ==
    /\ snapshot.metric_data = [disk_usage_percent |-> 95, memory_usage_percent |-> 70,
                               cpu_usage_percent |-> 85]
    /\ snapshot.tool_name = None
    /\ snapshot.environment = None
    /\ config.current_environment = "development"
    /\ config.custom_thresholds_enabled

\* C12: a percentage metric's alert is CRITICAL exactly when value >= threshold
\* + 10, a rate-like metric's exactly when value >= 2 * threshold, and HIGH
\* otherwise; the development snapshot disk 95, memory 70, cpu 85 gives a HIGH
\* disk alert and a HIGH cpu alert only.
C12_SeverityRule ==
    ThresholdsDone =>
        /\ \A i \in 1..Len(raw_alerts) :
              LET a == raw_alerts[i]
              IN  /\ a.level \in {"HIGH", "CRITICAL"}
                  /\ a.metric \in PercentageMetrics =>
                        (a.level = "CRITICAL" <=> a.value >= a.threshold + 10)
                  /\ a.metric \in RateMetrics =>
                        (a.level = "CRITICAL" <=> a.value >= 2 * a.threshold)
        /\ ScenarioA =>
              [i \in 1..Len(raw_alerts) |-> <<raw_alerts[i].level, raw_alerts[i].metric>>]
                  = << <<"HIGH", "disk_usage_percent">>, <<"HIGH", "cpu_usage_percent">> >>

----------------------------------------------------------------------------
(* The batch command: process_alerts_with_correlation run by a scheduler    *)
(* over the history file and the dashboard data of the moment.  A batch    *)
(* takes less than a minute: the clock advances between batches.           *)

MaxBatches == 2

MaxTime == 5

\* minutes the scheduler waits between two batches
TickSteps == {2, 5}

\* channel settings a configuration file may merge over the defaults
PipelineConfigs ==
    { DefaultConfig, [DefaultConfig EXCEPT !.slack_enabled = TRUE] }

\* outcomes of the transports: every call fails, or every call succeeds
Deliveries == { {}, {"email", "slack"} }

\* dashboard_data.json, the logs directory and the latest predictions file
Dashboards ==
    { [file |-> "ok", logs_dir |-> "ok", system |-> ("disk_usage_percent" :> 50),
       tools |-> <<[name |-> "PlannerApp", status |-> "healthy", metrics |-> <<>>]>>,
       critical_risks |-> 0],
      [file |-> "missing", logs_dir |-> "ok", system |-> <<>>, tools |-> <<>>,
       critical_risks |-> 0],
      [file |-> "ok", logs_dir |-> "ok", system |-> ("disk_usage_percent" :> 95),
       tools |-> <<[name |-> "PlannerApp", status |-> "degraded", metrics |-> <<>>]>>,
       critical_risks |-> 0],
      [file |-> "ok", logs_dir |-> "ok", system |-> ("disk_usage_percent" :> 50),
       tools |-> <<[name |-> "PlannerApp", status |-> "degraded", metrics |-> <<>>],
                   [name |-> "CodingReviewer", status |-> "down", metrics |-> <<>>]>>,
       critical_risks |-> 0],
      [file |-> "malformed", logs_dir |-> "ok", system |-> <<>>, tools |-> <<>>,
       critical_risks |-> 0],
      [file |-> "missing", logs_dir |-> "missing", system |-> <<>>, tools |-> <<>>,
       critical_risks |-> 0] }

\* a record as send_alert writes it (no source key)
WrittenRecord(timestamp, level, title) ==
    LoadedRecord(timestamp, level, title, None)

\* load_alert_history(): the records of the file, [] when the file is absent or
\* cannot be read or parsed
load_alert_history(history_file) ==
    IF history_file.state = "ok" THEN history_file.records ELSE <<>>

\* alert_history.json at start: absent; one record written 3 minutes ago; one
\* record that carries a source key; max_alerts_per_hour records written
\* cooldown_minutes apart within the hour; a record that carries a source key
\* followed by a record written 3 minutes ago; or a record that carries a source
\* key and is 25 hours old
LoadedHistories ==
    { <<>>,
      <<WrittenRecord(0 - 3, "MEDIUM", <<"Dashboard Data Missing">>)>>,
      <<LoadedRecord(0 - 35, "MEDIUM", <<"Dashboard Data Missing">>, "alert_system")>>,
      [i \in 1..DefaultConfig.max_alerts_per_hour |->
          WrittenRecord(0 - DefaultConfig.cooldown_minutes
                              * (DefaultConfig.max_alerts_per_hour + 1 - i),
                        "MEDIUM", <<"Dashboard Data Missing">>)],
      <<LoadedRecord(0 - 35, "MEDIUM", <<"Dashboard Data Missing">>, "alert_system"),
        WrittenRecord(0 - 3, "MEDIUM", <<"Dashboard Data Missing">>)>>,
      <<LoadedRecord(0 - 25 * 60, "MEDIUM", <<"Dashboard Data Missing">>,
                     "alert_system")>> }

\* the states of alert_history.json at construction
HistoryFiles ==
    {[state |-> "ok", records |-> h] : h \in LoadedHistories}
    \cup {[state |-> "missing", records |-> <<>>],
          [state |-> "corrupt", records |-> <<>>]}

Init ==
    /\ now = 0
    /\ config \in PipelineConfigs
    /\ \E history_file \in HistoryFiles :
          alert_history = load_alert_history(history_file)
    /\ pc = "idle"
    /\ raw_alerts = <<>>
    /\ queue = <<>>
    /\ last = NoCall
    /\ runs = <<>>
    /\ snapshot = NoSnapshot

\* process_alerts_with_correlation, up to the loop: check_for_alerts, whose
\* exception ends the command, the early return when there is nothing to
\* process, correlate_alerts
StartBatch(dashboard) ==
    /\ pc = "idle"
    /\ Len(runs) < MaxBatches
    /\ LET raised == CheckForAlertsRaises(dashboard)
           raw == IF raised THEN <<>> ELSE check_for_alerts(config, dashboard)
       IN  /\ raw_alerts' = raw
           /\ queue' = IF raw = <<>> THEN <<>> ELSE correlate_alerts(config, raw, now)
           /\ pc' = IF raw = <<>> THEN "idle" ELSE "processing"
           /\ runs' = Append(runs, [dashboard |-> dashboard, start |-> now,
                                    raised |-> raised, sent |-> <<>>])
    /\ UNCHANGED <<now, config, alert_history, last, snapshot>>

\* one iteration of the loop: check_escalation_policies, then
\* send_escalated_alert or send_alert
ProcessAlert(delivered) ==
    /\ pc = "processing"
    /\ queue # <<>>
    /\ LET alert == Head(queue)
           e == check_escalation_policies(config, alert_history, alert, now)
           r == IF e.result
                THEN send_escalated_alert(config, alert_history, e.alert, now, delivered)
                ELSE send_alert(config, alert_history, alert, now, delivered)
           recorded == Len(r.history) >
                          Len(IF e.result THEN alert_history
                              ELSE PruneHistory(alert_history, now))
           n == Len(runs)
       IN  /\ alert_history' = r.history
           /\ last' = [ op |-> IF e.result THEN "send_escalated_alert" ELSE "send_alert",
                        before |-> alert, after |-> e.alert, result |-> r.result,
                        attempted |-> r.attempted, delivered |-> delivered,
                        recorded |-> recorded,
                        history_before |-> alert_history, time |-> now ]
           /\ runs' = IF recorded
                      THEN [runs EXCEPT ![n].sent =
                              Append(@, [record |-> r.history[Len(r.history)],
                                         title |-> alert.title,
                                         source |-> alert.source])]
                      ELSE runs
    /\ queue' = Tail(queue)
    /\ pc' = IF Tail(queue) = <<>> THEN "idle" ELSE "processing"
    /\ UNCHANGED <<now, config, raw_alerts, snapshot>>

\* time passes between two batches
Tick(d) ==
    /\ pc = "idle"
    /\ now + d <= MaxTime
    /\ now' = now + d
    /\ UNCHANGED <<config, alert_history, pc, raw_alerts, queue, last, runs, snapshot>>

Next ==
    \/ \E dashboard \in Dashboards : StartBatch(dashboard)
    \/ \E delivered \in Deliveries : ProcessAlert(delivered)
    \/ \E d \in TickSteps : Tick(d)

Spec == Init /\ [][Next]_vars

----------------------------------------------------------------------------
(* Properties of the Escalator (checked under SpecEscalation) *)

EscalationDone == last.op = "check_escalation_policies"

\* C1: check_escalation_policies never lowers an alert's level: the rank after
\* the call is at least the rank before it, whichever policy fires.
C1_NeverLowersLevel ==
    EscalationDone =>
        level_priority(last.after.level) >= level_priority(last.before.level)

\* the earliest (smallest timestamp) history record similar to the alert
EarliestOccurrence(history, alert) ==
    LET ts == {history[i].timestamp : i \in {j \in 1..Len(history) : Similar(history[j], alert)}}
    IN  IF ts = {} THEN <<>> ELSE <<CHOOSE x \in ts : \A y \in ts : x <= y>>

\* C7: when the frequency policy does not escalate, the duration policy measures
\* the elapsed minutes from the earliest similar record, and the highest duration
\* threshold those minutes meet sets the alert's level (125 minutes -> CRITICAL).
C7_DurationFromEarliest ==
    LET alert == last.before
        earliest == EarliestOccurrence(alert_history, alert)
        hit == HighestMet(config.duration_escalation.thresholds, now - earliest[1])
    IN  (/\ EscalationDone
         /\ config.duration_escalation.enabled
         /\ ~FrequencyPolicy(config, alert_history, alert, now).fires
         /\ earliest # <<>>
         /\ hit # <<>>
         /\ alert.level # config.duration_escalation.thresholds[hit[1]])
        => /\ last.result
           /\ last.after.level = config.duration_escalation.thresholds[hit[1]]

\* C8: check_escalation_policies returns true exactly when it raised the level:
\* the result is true iff the rank after the call is strictly above the rank before.
C8_TrueIffRaised ==
    EscalationDone =>
        (last.result <=>
            level_priority(last.after.level) > level_priority(last.before.level))

\* C9: when check_escalation_policies returns false the alert is unchanged
\* (level, title, message, escalation_reason) and History is not modified.
C9_FalseLeavesAlertUnchanged ==
    (EscalationDone /\ ~last.result) =>
        /\ last.after = last.before
        /\ alert_history = last.history_before

\* a call that returned false although the history holds similar records
C9_Witness ==
    /\ EscalationDone
    /\ ~last.result
    /\ Len(SimilarSince(alert_history, last.before, now - 60)) >= 3

\* the name of the policy in an escalation_reason, None when there is none
PolicyNamed(reason) == IF reason = <<>> THEN None ELSE reason[1]

\* C15: the policies are tried in the order frequency, duration, persistence and
\* at most one of them modifies the alert: the alert after the call carries the
\* level and the reason of the first policy that applies, and of no other.
C15_FirstApplicablePolicyWins ==
    EscalationDone =>
        LET f == FrequencyPolicy(config, last.history_before, last.before, last.time)
            d == DurationPolicy(config, last.history_before, last.before, last.time)
            p == PersistentPolicy(config, last.history_before, last.before, last.time)
            name == PolicyNamed(last.after.escalation_reason)
        IN  /\ last.result =>
                  name \in {"Frequency escalation", "Duration escalation",
                            "Persistent escalation"}
            /\ name = "Frequency escalation" => last.after = Escalated(last.before, f)
            /\ name = "Duration escalation" =>
                  ~f.fires /\ last.after = Escalated(last.before, d)
            /\ name = "Persistent escalation" =>
                  ~f.fires /\ ~d.fires /\ last.after = Escalated(last.before, p)
            /\ f.fires => name = "Frequency escalation"
            /\ (~f.fires /\ d.fires) => name = "Duration escalation"

\* a call in which two policies applied and the frequency policy alone acted
C15_Witness ==
    /\ EscalationDone
    /\ FrequencyPolicy(config, last.history_before, last.before, last.time).fires
    /\ \/ DurationPolicy(config, last.history_before, last.before, last.time).fires
       \/ PersistentPolicy(config, last.history_before, last.before, last.time).fires
    /\ PolicyNamed(last.after.escalation_reason) = "Frequency escalation"

\* the number of history records with the alert's title and source that are
\* less than `minutes` old
Occurrences(history, alert, t, minutes) ==
    Cardinality({i \in 1..Len(history) :
                    /\ history[i].title = alert.title
                    /\ history[i].source = alert.source
                    /\ history[i].timestamp > t - minutes})

\* C16 (as stated): with n matching records in the time window, the thresholds
\* are scanned from the highest count down and the first one that is met and
\* whose target differs from the alert's level sets the alert to that target,
\* with the reason 'Frequency escalation: n occurrences in W minutes'.
C16_FirstMetAndDifferingThreshold ==
    LET fc == config.frequency_escalation
        n == Occurrences(last.history_before, last.before, last.time,
                         fc.time_window_minutes)
        met == {k \in DOMAIN fc.thresholds :
                   n >= k /\ fc.thresholds[k] # last.before.level}
    IN  (EscalationDone /\ fc.enabled /\ met # {})
        => /\ last.result
           /\ last.after.level = fc.thresholds[Max(met)]
           /\ last.after.escalation_reason
                 = <<"Frequency escalation", n, fc.time_window_minutes>>

\* C16 (amended): the highest threshold that is met decides alone.  If its
\* target differs from the alert's level the alert is set to it with the
\* frequency reason; if it is the alert's level, or no threshold is met, the
\* frequency policy does not act and no lower threshold is tried.
C16_HighestMetThresholdDecides ==
    LET fc == config.frequency_escalation
        n == Occurrences(last.history_before, last.before, last.time,
                         fc.time_window_minutes)
        met == {k \in DOMAIN fc.thresholds : n >= k}
        acts == met # {} /\ fc.thresholds[Max(met)] # last.before.level
    IN  (EscalationDone /\ fc.enabled)
        => /\ acts =>
                 /\ last.result
                 /\ last.after.level = fc.thresholds[Max(met)]
                 /\ last.after.escalation_reason
                       = <<"Frequency escalation", n, fc.time_window_minutes>>
           /\ ~acts =>
                 PolicyNamed(last.after.escalation_reason) # "Frequency escalation"

\* 3 matching records in 60 minutes, thresholds {3: HIGH, 5: CRITICAL}, level
\* MEDIUM: the alert became HIGH with a reason citing 3 occurrences
C16_Witness ==
    /\ EscalationDone
    /\ last.before.level = "MEDIUM"
    /\ last.after.level = "HIGH"
    /\ last.after.escalation_reason = <<"Frequency escalation", 3, 60>>

\* the distinct interval indices floor(minutes_since_record / check_interval)
\* of the matching records inside the lookback window
IntervalsCovered(history, alert, t, check_interval, max_checks) ==
    {(t - history[i].timestamp) \div check_interval :
        i \in {j \in 1..Len(history) :
                  /\ history[j].title = alert.title
                  /\ history[j].source = alert.source
                  /\ history[j].timestamp > t - check_interval * max_checks}}

\* C17: when neither frequency nor duration escalated, the persistence policy
\* fires exactly when the matching records of the lookback window cover at
\* least max_checks distinct intervals; it then sets the level to escalate_to
\* whatever the level was, and otherwise leaves the alert unchanged.
C17_PersistenceCountsDistinctIntervals ==
    LET pcfg == config.persistent_escalation
        covered == Cardinality(IntervalsCovered(last.history_before, last.before,
                       last.time, pcfg.check_interval_minutes, pcfg.max_checks))
    IN  (/\ EscalationDone
         /\ pcfg.enabled
         /\ ~FrequencyPolicy(config, last.history_before, last.before, last.time).fires
         /\ ~DurationPolicy(config, last.history_before, last.before, last.time).fires)
        => /\ covered >= pcfg.max_checks =>
                 /\ last.after.level = pcfg.escalate_to
                 /\ PolicyNamed(last.after.escalation_reason) = "Persistent escalation"
           /\ covered < pcfg.max_checks => last.after = last.before

\* the persistence policy fired on an alert that was not at escalate_to
C17_Witness ==
    /\ EscalationDone
    /\ PolicyNamed(last.after.escalation_reason) = "Persistent escalation"
    /\ last.before.level # config.persistent_escalation.escalate_to
    /\ last.after.level = config.persistent_escalation.escalate_to

----------------------------------------------------------------------------
(* Properties of the batch command (checked under Spec) *)

\* the dispatches of all batches so far, in order: the record appended and the
\* (title, source) of the alert the loop handed to the Dispatcher
RECURSIVE Dispatches(_)
Dispatches(rs) ==
    IF rs = <<>> THEN <<>> ELSE Head(rs).sent \o Dispatches(Tail(rs))

\* C2 (as stated): History never contains two dispatch records, escalated or
\* not, whose timestamps are less than cooldown_minutes apart.
C2_OneAlertPerCooldown ==
    \A i, j \in 1..Len(alert_history) :
        i < j => alert_history[j].timestamp - alert_history[i].timestamp
                    >= config.cooldown_minutes

\* C2 (amended): History never contains an unescalated dispatch record whose
\* timestamp is less than cooldown_minutes after an earlier record; only
\* escalated records, which bypass the Throttle Gate, fall inside a cooldown.
C2_OneUnescalatedPerCooldown ==
    \A i, j \in 1..Len(alert_history) :
        (i < j /\ ~alert_history[j].escalated)
            => alert_history[j].timestamp - alert_history[i].timestamp
                    >= config.cooldown_minutes

\* two batches each dispatched an unescalated alert, the second one after the
\* cooldown of the first
C2_Witness ==
    /\ Len(runs) = 2
    /\ runs[1].sent # <<>>
    /\ runs[2].sent # <<>>
    /\ ~runs[2].sent[1].record.escalated
    /\ Len(alert_history) >= 2

\* C3: when History holds max_alerts_per_hour records of the last 60 minutes,
\* send_alert returns false, calls no channel and appends no record.
C3_RateLimitRejects ==
    (/\ last.op = "send_alert"
     /\ Len(RecentAlerts(last.history_before, last.time)) >= config.max_alerts_per_hour)
    => /\ ~last.result
       /\ last.attempted = {}
       /\ ~last.recorded
       /\ alert_history = PruneHistory(last.history_before, last.time)

\* send_alert rejected an alert by the rate limit alone: a channel is enabled and
\* the cooldown of the newest record had passed
C3_Witness ==
    /\ last.op = "send_alert"
    /\ Len(RecentAlerts(last.history_before, last.time)) = config.max_alerts_per_hour
    /\ config.slack_enabled
    /\ \A i \in 1..Len(last.history_before) :
          last.time - last.history_before[i].timestamp >= config.cooldown_minutes
    /\ ~last.recorded

\* C4: every record the Dispatcher appends for an alert of title t and source s
\* is counted by the Escalator as an occurrence of (t, s): after n dispatches of
\* the alert inside the frequency window, n similar records are found.
C4_DispatchesAreCounted ==
    LET log == Dispatches(runs)
        cutoff == now - config.frequency_escalation.time_window_minutes
    IN  \A k \in 1..Len(log) :
            Len(SimilarSince(alert_history, log[k], cutoff))
                >= Cardinality({m \in 1..Len(log) :
                                  /\ log[m].title = log[k].title
                                  /\ log[m].source = log[k].source
                                  /\ log[m].record.timestamp > cutoff})

\* a batch is complete when the loop has consumed its alerts
BatchComplete(i) == i < Len(runs) \/ pc = "idle"

\* C10 (as stated): a second batch on an unchanged snapshot, started less than
\* cooldown_minutes after the first, dispatches nothing.
C10_SecondRunSendsNothing ==
    \A i \in 1..(Len(runs) - 1) :
        (/\ runs[i + 1].dashboard = runs[i].dashboard
         /\ runs[i + 1].start - runs[i].start < config.cooldown_minutes
         /\ BatchComplete(i + 1))
        => runs[i + 1].sent = <<>>

\* C10 (amended): if the first batch appended a record and the second batch, on
\* an unchanged snapshot, starts less than cooldown_minutes after that record,
\* the second batch dispatches no unescalated alert: every record it appends
\* is an escalated one.
C10_SecondRunSendsNoUnescalated ==
    \A i \in 1..(Len(runs) - 1) :
        (/\ runs[i + 1].dashboard = runs[i].dashboard
         /\ runs[i].sent # <<>>
         /\ runs[i + 1].start - runs[i].sent[Len(runs[i].sent)].record.timestamp
                < config.cooldown_minutes)
        => \A k \in 1..Len(runs[i + 1].sent) : runs[i + 1].sent[k].record.escalated

\* the second batch had alerts to send, ran inside the cooldown of the first
\* batch's record and was throttled
C10_Witness ==
    /\ Len(runs) = 2
    /\ pc = "idle"
    /\ runs[2].dashboard = runs[1].dashboard
    /\ runs[1].sent # <<>>
    /\ ~runs[1].sent[1].record.escalated
    /\ runs[2].start - runs[1].start < config.cooldown_minutes
    /\ raw_alerts # <<>>
    /\ runs[2].sent = <<>>
    /\ last.op = "send_alert" /\ ~last.recorded

\* the last record of the history
LastRecord == alert_history[Len(alert_history)]

\* C18: an escalated alert is dispatched without consulting the Throttle Gate,
\* also when the rate limit or the cooldown would reject it; its record is
\* appended to History and should_send_alert counts it for later unescalated
\* alerts, which it rejects inside that record's cooldown.
C18_EscalatedBypassesGateAndIsCounted ==
    /\ last.op = "send_escalated_alert" =>
          /\ Len(alert_history) = Len(last.history_before) + 1
          /\ SubSeq(alert_history, 1, Len(last.history_before)) = last.history_before
          /\ LastRecord.escalated
          /\ LastRecord.timestamp = last.time
    /\ (/\ last.op = "send_alert"
        /\ \E j \in 1..Len(last.history_before) :
              /\ last.history_before[j].escalated
              /\ last.time - last.history_before[j].timestamp < config.cooldown_minutes)
       => /\ ~last.result
          /\ last.attempted = {}
          /\ Len(alert_history) <= Len(last.history_before)

\* an escalated record was appended inside the cooldown of the record before
\* it, and a later unescalated alert was rejected by the cooldown of that
\* escalated record alone
C18_Witness ==
    /\ last.op = "send_alert"
    /\ Len(alert_history) <= Len(last.history_before)
    /\ Len(last.history_before) < config.max_alerts_per_hour
    /\ \E j \in 2..Len(last.history_before) :
          /\ last.history_before[j].escalated
          /\ last.time - last.history_before[j].timestamp < config.cooldown_minutes
          /\ last.history_before[j].timestamp - last.history_before[j - 1].timestamp
                < config.cooldown_minutes
          /\ \A i \in 1..Len(last.history_before) :
                ~last.history_before[i].escalated =>
                    last.time - last.history_before[i].timestamp >= config.cooldown_minutes

\* the channels of the alert's level, with the forced channels for an escalated
\* alert, that are enabled and whose transport succeeds
DeliveredChannels ==
    LET level == last.after.level
        selected == (IF level \in DOMAIN config.alert_levels
                     THEN config.alert_levels[level] ELSE {})
                    \cup (IF last.op = "send_escalated_alert"
                          THEN config.force_channels ELSE {})
    IN  {c \in selected \cap last.delivered :
            \/ c = "email" /\ config.email_enabled
            \/ c = "slack" /\ config.slack_enabled}

C20_DecisionsUseRetainedRecordsOnly ==
    last.op \in {"send_alert", "send_escalated_alert"} =>
        LET retained == PruneHistory(last.history_before, last.time)
            e == check_escalation_policies(config, retained, last.before, last.time)
        IN  /\ e.result = (last.op = "send_escalated_alert")
            /\ e.alert = last.after
            /\ last.op = "send_alert" =>
                  last.recorded = should_send_alert(config, retained, last.time)

\* C21: a batch always completes and reports its counts: whatever the state of
\* the dashboard data file, the logs directory, the history file and the
\* channels, process_alerts_with_correlation ends without raising.
C21_BatchNeverRaises ==
    \A i \in 1..Len(runs) : ~runs[i].raised

\* C22: correlate_alerts, check_escalation_policies and should_send_alert are
\* total: for every alert list, every history (records lacking a timestamp or a
\* title included) and every configured number (time_window_minutes of 0 or above
\* 59, check_interval_minutes of 0 included) each returns and never raises.
C22_NeverRaises ==
    last.op \in {"correlate_alerts", "check_escalation_policies", "should_send_alert"}
        => ~last.raised

\* the parts of C22 that do hold: a time window above 59 and a check interval of
\* 0 raise nothing, with a history whose records all carry a timestamp
C22_WideWindowAndZeroIntervalReturn ==
    (/\ last.op \in {"correlate_alerts", "check_escalation_policies", "should_send_alert"}
     /\ config.time_window_minutes # 0
     /\ \A i \in 1..Len(alert_history) : HasTimestamp(alert_history[i]))
        => ~last.raised

----------------------------------------------------------------------------
(* Further properties of the Correlator (checked under SpecCorrelation) *)

\* the positions of raw_alerts that share the time bucket of position i
BucketOf(i) ==
    {j \in 1..Len(raw_alerts) :
        WindowKey(raw_alerts[j], config.time_window_minutes, now)
            = WindowKey(raw_alerts[i], config.time_window_minutes, now)}

\* the positions in the bucket of i whose alert matches pattern number p
MatchingIn(i, p) ==
    {j \in BucketOf(i) : MatchesPattern(raw_alerts[j], correlation_patterns[p])}

\* raw_alerts[i] is in the output as it was
PassesThrough(i) ==
    \E k \in 1..Len(queue) : queue[k] = raw_alerts[i]

\* the summary a composite keeps of a member
Summary(alert) ==
    [title |-> alert.title, level |-> alert.level, source |-> alert.source,
     timestamp |-> alert.timestamp]

\* raw_alerts[i] is a member of a composite of pattern number p
MemberOfComposite(i, p) ==
    \E k \in 1..Len(queue) :
        /\ IsComposite(queue[k])
        /\ queue[k].correlation_group.pattern = correlation_patterns[p].name
        /\ \E m \in 1..Len(queue[k].correlation_group.alerts) :
              queue[k].correlation_group.alerts[m] = Summary(raw_alerts[i])

\* no pattern before number q groups the alert at position j
UngroupedBefore(j, q) ==
    \A r \in 1..(q - 1) : j \in MatchingIn(j, r) => MatchingIn(j, r) = {j}

\* C23: a pattern matched by exactly one alert of a bucket forms no group: an
\* alert that is alone in every pattern it matches (a single-alert bucket
\* included) is in the output unchanged, and an alert that is alone in an earlier
\* pattern is still grouped by a later pattern that it shares with another alert.
C23_SingleMatchFormsNoGroup ==
    (CorrelationDone /\ config.correlation_enabled) =>
        \A i \in 1..Len(raw_alerts) :
            /\ (\A p \in 1..Len(correlation_patterns) :
                    i \in MatchingIn(i, p) => MatchingIn(i, p) = {i})
                  => PassesThrough(i)
            /\ \A q \in 1..Len(correlation_patterns) :
                  (/\ i \in MatchingIn(i, q)
                   /\ Cardinality(MatchingIn(i, q)) >= 2
                   /\ \A j \in MatchingIn(i, q) : UngroupedBefore(j, q))
                      => MemberOfComposite(i, q)

\* an alert alone in network_issues is grouped by tool_failures, and another
\* alert alone in its only pattern passes through beside the composite
C23_Witness ==
    /\ CorrelationDone
    /\ config.correlation_enabled
    /\ \E i, n \in 1..Len(raw_alerts) :
          /\ \E p, q \in 1..Len(correlation_patterns) :
                /\ p < q
                /\ MatchingIn(i, p) = {i}
                /\ MemberOfComposite(i, q)
          /\ n \in BucketOf(i)
          /\ \E p \in 1..Len(correlation_patterns) : MatchingIn(n, p) = {n}
          /\ PassesThrough(n)

\* the positions of the bucket of i that no pattern before number p has grouped
RECURSIVE PoolBefore(_, _)
PoolBefore(i, p) ==
    IF p = 1 THEN BucketOf(i)
    ELSE LET pool == PoolBefore(i, p - 1)
             matching == pool \cap MatchingIn(i, p - 1)
         IN  IF Cardinality(matching) > 1 THEN pool \ matching ELSE pool

\* C24 as stated: an alert that matches patterns P1 and P2, P1 declared first,
\* where P1 is matched by at least two alerts of the bucket, is a member of P1's
\* composite and of no composite of P2.
C24_EarlierPatternClaimsAlert ==
    (CorrelationDone /\ config.correlation_enabled) =>
        \A i \in 1..Len(raw_alerts) :
            \A p, q \in 1..Len(correlation_patterns) :
                (/\ p < q
                 /\ i \in MatchingIn(i, p)
                 /\ i \in MatchingIn(i, q)
                 /\ Cardinality(MatchingIn(i, p)) >= 2)
                    => (MemberOfComposite(i, p) /\ ~MemberOfComposite(i, q))

\* C24, amended: patterns claim alerts greedily in declaration order: an alert
\* that matches patterns P1 and P2, P1 declared first, where P1 is matched by at
\* least two alerts of the bucket that no earlier pattern grouped, the alert
\* among them, is a member of P1's composite and of no composite of P2.
C24_EarlierPatternClaimsUngroupedAlert ==
    (CorrelationDone /\ config.correlation_enabled) =>
        \A i \in 1..Len(raw_alerts) :
            \A p, q \in 1..Len(correlation_patterns) :
                (/\ p < q
                 /\ i \in MatchingIn(i, p)
                 /\ i \in MatchingIn(i, q)
                 /\ i \in PoolBefore(i, p)
                 /\ Cardinality(PoolBefore(i, p) \cap MatchingIn(i, p)) >= 2)
                    => (MemberOfComposite(i, p) /\ ~MemberOfComposite(i, q))

\* a network_issues composite holds an alert that also matches tool_failures,
\* formed with an alert that disk_issues, matched by it alone, left in the pool
C24_Witness ==
    /\ CorrelationDone
    /\ config.correlation_enabled
    /\ \E i, j \in 1..Len(raw_alerts) :
          /\ i # j
          /\ i \in MatchingIn(i, 3) /\ i \in MatchingIn(i, 4)
          /\ j \in MatchingIn(i, 1) /\ j \in MatchingIn(i, 3)
          /\ MatchingIn(i, 1) = {j}
          /\ MemberOfComposite(i, 3) /\ MemberOfComposite(j, 3)
          /\ ~MemberOfComposite(i, 4)

\* the number of input alerts an output list accounts for
RECURSIVE AlertsAccountedFor(_)
AlertsAccountedFor(alerts) ==
    IF alerts = <<>> THEN 0
    ELSE (IF IsComposite(Head(alerts)) THEN Head(alerts).correlation_group.alert_count
          ELSE 1)
         + AlertsAccountedFor(Tail(alerts))

\* how many input alerts have the summary x
InputCount(x) ==
    Cardinality({i \in 1..Len(raw_alerts) : Summary(raw_alerts[i]) = x})

\* how many times the output holds an alert of summary x, as a pass-through
\* alert or as a member of a composite
OutputCount(x) ==
    Cardinality({k \in 1..Len(queue) : ~IsComposite(queue[k]) /\ Summary(queue[k]) = x})
    + Cardinality({km \in (1..Len(queue)) \X (1..Len(raw_alerts)) :
                      /\ IsComposite(queue[km[1]])
                      /\ km[2] <= Len(queue[km[1]].correlation_group.alerts)
                      /\ queue[km[1]].correlation_group.alerts[km[2]] = x})

\* C28: the Correlator neither loses nor duplicates alerts: each input alert is
\* in the output exactly once, unchanged or as a member of one composite, so the
\* pass-through alerts plus the alert_count of the composites add up to
\* len(alerts).
C28_NothingLostNothingDuplicated ==
    CorrelationDone =>
        /\ AlertsAccountedFor(queue) = Len(raw_alerts)
        /\ \A k \in 1..Len(queue) :
              \/ /\ IsComposite(queue[k])
                 /\ queue[k].correlation_group.alert_count
                        = Len(queue[k].correlation_group.alerts)
              \/ \E i \in 1..Len(raw_alerts) : queue[k] = raw_alerts[i]
        /\ \A i \in 1..Len(raw_alerts) :
              OutputCount(Summary(raw_alerts[i])) = InputCount(Summary(raw_alerts[i]))

\* a composite of two and a pass-through alert come out of three alerts
C28_Witness ==
    /\ CorrelationDone
    /\ Len(raw_alerts) = 3
    /\ \E k, n \in 1..Len(queue) :
          /\ IsComposite(queue[k])
          /\ queue[k].correlation_group.alert_count = 2
          /\ ~IsComposite(queue[n])

----------------------------------------------------------------------------
(* Further properties of a batch (checked under Spec) *)

\* C25: under the default configuration every alert (as evaluated, as
\* correlated, as escalated) and every history record has a level among LOW,
\* MEDIUM, HIGH and CRITICAL, the loaded records having such levels.
C25_LevelsAreRanks ==
    /\ \A i \in 1..Len(raw_alerts) : raw_alerts[i].level \in Levels
    /\ \A i \in 1..Len(queue) : queue[i].level \in Levels
    /\ \A i \in 1..Len(alert_history) : alert_history[i].level \in Levels
    /\ last.op # None => (last.before.level \in Levels /\ last.after.level \in Levels)

\* an escalated alert whose level the Escalator rewrote has been recorded
C25_Witness ==
    /\ last.op = "send_escalated_alert"
    /\ last.after.level # last.before.level
    /\ last.recorded
    /\ alert_history[Len(alert_history)].level = last.after.level
    /\ alert_history[Len(alert_history)].level \in Levels

----------------------------------------------------------------------------
(* Further properties of the Threshold Evaluator (checked under SpecThresholds) *)

\* what check_custom_thresholds returns for the snapshot with the current
\* environment still development
DevelopmentAlerts ==
    check_custom_thresholds([config EXCEPT !.current_environment = "development"],
                            snapshot.metric_data, snapshot.tool_name,
                            snapshot.environment)

\* C26: for one system metric snapshot, after set_environment has switched the
\* current environment from development to production, check_custom_thresholds
\* returns fewer alerts than it returns under development.
C26_ProductionReturnsFewer ==
    (/\ ThresholdsDone
     /\ config.current_environment = "production"
     /\ snapshot.tool_name = None
     /\ snapshot.environment = None) =>
        Len(raw_alerts) < Len(DevelopmentAlerts)

\* what does hold of the switch: production never returns fewer alerts than
\* development
C26_ProductionReturnsNoFewer ==
    (/\ ThresholdsDone
     /\ config.current_environment = "production"
     /\ snapshot.tool_name = None
     /\ snapshot.environment = None) =>
        Len(raw_alerts) >= Len(DevelopmentAlerts)

\* the snapshot of Tools/test_thresholds.py gives two alerts in either environment
C26_TestSnapshotGivesTwoAlerts ==
    (/\ ThresholdsDone
     /\ config.current_environment = "production"
     /\ config.custom_thresholds_enabled
     /\ snapshot.tool_name = None
     /\ snapshot.environment = None
     /\ snapshot.metric_data = [disk_usage_percent |-> 95, memory_usage_percent |-> 70,
                                cpu_usage_percent |-> 85]) =>
        (Len(raw_alerts) = 2 /\ Len(DevelopmentAlerts) = 2)

----------------------------------------------------------------------------
(* Properties of correlation groups (checked under SpecGroups) *)

\* C27: no composite alert returned by correlate_alerts has
\* correlation_group.alert_count above max_group_size (5 by default).
C27_GroupSizeIsBounded ==
    CorrelationDone =>
        \A k \in 1..Len(queue) :
            IsComposite(queue[k]) =>
                queue[k].correlation_group.alert_count <= config.max_group_size

----------------------------------------------------------------------------
(* Properties of one batch (checked under Spec) *)

\* the unescalated dispatches of batch number i
UnescalatedSent(i) ==
    {k \in 1..Len(runs[i].sent) : ~runs[i].sent[k].record.escalated}

\* the history held a record written at the instant of the last call
RecordedThisInstant ==
    \E j \in 1..Len(last.history_before) :
        last.history_before[j].timestamp = last.time

\* C29: with cooldown_minutes > 0, one batch dispatches at most one unescalated
\* alert: once an alert of the batch is recorded in the history,
\* should_send_alert rejects every later unescalated alert of the batch.
C29_OneUnescalatedPerBatch ==
    config.cooldown_minutes > 0 =>
        /\ \A i \in 1..Len(runs) : Cardinality(UnescalatedSent(i)) <= 1
        /\ (last.op = "send_alert" /\ RecordedThisInstant) =>
              (~last.recorded /\ ~last.result /\ last.attempted = {})

\* a batch of two alerts: the first was dispatched unescalated, the second was
\* rejected by the Throttle Gate
C29_Witness ==
    /\ config.cooldown_minutes > 0
    /\ pc = "idle"
    /\ Len(runs) >= 1
    /\ Len(raw_alerts) >= 2
    /\ Cardinality(UnescalatedSent(Len(runs))) = 1
    /\ runs[Len(runs)].sent[1].record.timestamp = last.time
    /\ last.op = "send_alert"
    /\ RecordedThisInstant
    /\ ~last.recorded

----------------------------------------------------------------------------
(* Properties of the Correlator on evaluated alerts (checked under SpecEvaluated) *)

\* the alerts of raw_alerts that check_custom_thresholds produced
IsThresholdAlert(alert) == alert.metric # None

\* C30: under the default configuration no alert of the Threshold Evaluator is
\* merged by the Correlator: each has the source custom_threshold_monitor, which
\* is in no pattern's sources, and correlate_alerts passes it through unchanged
\* however many of them share a bucket and a pattern's keywords.
C30_ThresholdAlertsAreNeverMerged ==
    CorrelationDone =>
        /\ \A i \in 1..Len(raw_alerts) :
              IsThresholdAlert(raw_alerts[i]) =>
                  /\ raw_alerts[i].source = "custom_threshold_monitor"
                  /\ \A p \in 1..Len(correlation_patterns) :
                        raw_alerts[i].source \notin correlation_patterns[p].sources
                  /\ PassesThrough(i)
        /\ \A k \in 1..Len(queue) :
              IsComposite(queue[k]) =>
                  \A m \in 1..Len(queue[k].correlation_group.alerts) :
                      /\ queue[k].correlation_group.alerts[m].source
                            # "custom_threshold_monitor"
                      /\ \A i \in 1..Len(raw_alerts) :
                            IsThresholdAlert(raw_alerts[i]) =>
                                queue[k].correlation_group.alerts[m].title
                                    # raw_alerts[i].title

\* two error-rate alerts share the window and the keyword "error" of
\* tool_failures and stay apart, beside a composite of the two unhealthy tools
C30_Witness ==
    /\ CorrelationDone
    /\ \E i, j \in 1..Len(raw_alerts) :
          /\ i # j
          /\ IsThresholdAlert(raw_alerts[i]) /\ IsThresholdAlert(raw_alerts[j])
          /\ "error" \in alert_text(raw_alerts[i]) \cap alert_text(raw_alerts[j])
          /\ "error" \in correlation_patterns[4].keywords
          /\ j \in BucketOf(i)
          /\ PassesThrough(i) /\ PassesThrough(j)
    /\ \E k \in 1..Len(queue) :
          /\ IsComposite(queue[k])
          /\ queue[k].correlation_group.pattern = "tool_failures"

====
